---------------------------- MODULE Spec2Model ----------------------------
(***************************************************************************)
(* A model of the card-battle bot of src/main.py: the player store, the    *)
(* command handlers (drop, select, enhance, battle, floor, farm), the      *)
(* battle resolver and the serialisation of the store to data.json.        *)
(*                                                                         *)
(* Three specifications share the variables:                               *)
(*   Spec        the commands of one player, interleaved at their awaits;  *)
(*               the rounds of a battle, which touch only the handler's    *)
(*               locals, are run to the loop's exit in one step.           *)
(*   BattleSpec  one battle, one attack at a time.                         *)
(*   SaveSpec    concurrent farm commands of distinct players and the      *)
(*               writes of save_data, one serialised chunk at a time.      *)
(*                                                                         *)
(* Note on lines 774-786 of src/main.py: the file carries two `else:`      *)
(* blocks after the Victory branch (the first ends with statements that    *)
(* use the names `extra` and `lvl_msgs`, the second repeats the penalty).  *)
(* Both start with the same two statements, the stamina penalty and        *)
(* save_data; the model takes these as the non-Victory branch.             *)
(***************************************************************************)
EXTENDS Integers, Sequences, FiniteSets, TLC

VARIABLES
    data,     \* data["users"]: player id -> player record            (line 62)
    order,    \* the keys of data["users"] in insertion order, as a dict keeps them
    cards,    \* the card objects (dicts): object reference -> card record
    tasks,    \* the running command handlers: task id -> its locals and position
    clock,    \* time.time() in milliseconds, read by create_card_instance
    file,     \* the content of data.json
    lock,     \* data_lock: its holder and its FIFO queue of waiters  (line 61)
    wlog,     \* history: the lock acquisitions and the writes, in order
    issued    \* the number of commands issued so far (bounds the model)

vars == <<data, order, cards, tasks, clock, file, lock, wlog, issued>>

---------------------------------------------------------------------------
(* Bounds of the model *)

\* commands issued in one behaviour of Spec
MaxCmds == 4
\* cards a player may hold before drop is no longer issued
MaxCards == 2
\* battle handlers of one player in flight at once
MaxBattles == 2
\* largest argument tried for select, enhance and floor beyond the valid range
MaxArg == 12
\* concurrent farm handlers (and players) of SaveSpec
MaxWriters == 3
\* floors on which BattleSpec starts its battle
MaxStartFloor == 4

---------------------------------------------------------------------------
(* Constants of the program *)

\* battle_cmd: stamina needed and charged for one battle
BATTLE_COST == 5
\* battle_cmd: stamina lost when the battle is not won
LOSS_PENALTY == 3
\* battle_cmd: max_turns
max_turns == 40
\* floor_cmd: the highest floor `next` moves to
MAX_FLOOR == 10
\* maybe_level_up_user: bonus
LEVEL_STAMINA_BONUS == 5

Max(a, b) == IF a >= b THEN a ELSE b
Min(a, b) == IF a <= b THEN a ELSE b

\* CHARACTERS: the catalog; the ability text is kept as written, the image left out.
CHARACTERS ==
    << [id |-> "hilde", name |-> "Hilde",
        base |-> [hp |-> 89, atk |-> 65, def |-> 92, spd |-> 65],
        ability |-> "First turn: +100% DEF"],
       [id |-> "joo_shiyoon", name |-> "Joo Shiyoon",
        base |-> [hp |-> 60, atk |-> 95, def |-> 86, spd |-> 89],
        ability |-> "First turn: +100% SPD"],
       [id |-> "yoo_mina", name |-> "Yoo Mina",
        base |-> [hp |-> 75, atk |-> 75, def |-> 75, spd |-> 85],
        ability |-> "First turn: +50% ATK"] >>

RARITIES == <<"Common", "Rare", "Epic", "Legendary">>

RARITY_MAX_LEVEL == [Common |-> 30, Rare |-> 40, Epic |-> 50, Legendary |-> 60]

RARITY_RANK == [Common |-> 1, Rare |-> 2, Epic |-> 3, Legendary |-> 4]

\* `kw in text` for the ability texts that occur
AbilityHas(text, kw) ==
    \/ kw = "DEF" /\ text = "First turn: +100% DEF"
    \/ kw = "SPD" /\ text = "First turn: +100% SPD"
    \/ kw = "ATK" /\ text = "First turn: +50% ATK"

---------------------------------------------------------------------------
(* Identities *)

\* An instance id f"{id}_{ms}_{rand}" is kept as its three fields; None is NoneId.
NoneId == [tid |-> "", ts |-> 0, rnd |-> 0]

\* The pieces of a template id between its underscores.
IdWords(tid) ==
    CASE tid = "hilde" -> <<"hilde">>
      [] tid = "joo_shiyoon" -> <<"joo", "shiyoon">>
      [] tid = "yoo_mina" -> <<"yoo", "mina">>
      [] OTHER -> <<tid>>

\* str(instance_id).split("_"): each part as [num, n, s], num when it is all digits.
SplitId(iid) ==
    [i \in 1..Len(IdWords(iid.tid)) |-> [num |-> FALSE, n |-> 0, s |-> IdWords(iid.tid)[i]]]
        \o << [num |-> TRUE, n |-> iid.ts, s |-> ""], [num |-> TRUE, n |-> iid.rnd, s |-> ""] >>

\* The random suffixes tried: random.randint(1000, 9999)
RandLow == 1000

---------------------------------------------------------------------------
(* Pure rules *)

exp_to_next(level) == 100 * level

\* Where the double product base * (1 + 0.03 * (lvl - 1)) falls just below the
\* exact integer, so that int() gives one less (bases of the model, levels 1..60).
FloatShort == { <<60, 36>>, <<60, 46>>, <<75, 13>>, <<75, 57>> }

\* int(base * (1 + 0.03 * (lvl - 1)))
ScaleStat(base, lvl) ==
    ((base * (100 + 3 * (lvl - 1))) \div 100) - (IF <<base, lvl>> \in FloatShort THEN 1 ELSE 0)

\* A halving that rounds up.
HalfRoundedUp(n) == (n + 1) \div 2

\* int(x): truncation towards zero of n / 2
TruncHalf(n) == IF n >= 0 THEN n \div 2 ELSE -((-n) \div 2)

\* A damage formula with a minimum of 0.
DamageNoMinimum(attacker_atk, defender_def) ==
    Max(0, TruncHalf(2 * attacker_atk - defender_def))

damage_formula(attacker_atk, defender_def) ==
    Max(1, TruncHalf(2 * attacker_atk - defender_def))

make_enemy_for_floor(floor) ==
    [hp  |-> 120 + (floor - 1) * 80,
     atk |-> 25 + (floor - 1) * 10,
     def |-> 10 + (floor - 1) * 5,
     spd |-> 20 + (floor - 1) * 2]

---------------------------------------------------------------------------
(* The battle resolver: the locals of battle_cmd and the steps of its loop *)

\* The history before any save_data: ev the lock and file events in order, snaps
\* the documents the store has amounted to since the lock was last acquired.
NoLog == [ev |-> << >>, snaps |-> {}]

\* The locals of a handler that is not in a battle.
NoLocals ==
    [floor |-> 0, lvl |-> 0,
     p_hp_max |-> 0, p_atk_base |-> 0, p_def_base |-> 0, p_spd_base |-> 0,
     p_atk |-> 0, p_def |-> 0, p_spd |-> 0,
     e_hp_max |-> 0, e_atk |-> 0, e_def |-> 0, e_spd |-> 0,
     player_current_hp |-> 0, enemy_current_hp |-> 0,
     turn_order |-> << >>, first_striker |-> "",
     current_round |-> 0, buff_applied |-> FALSE, pos |-> 0]

\* Lines 526-537: the first-turn buff, by keyword of the ability text.
BuffedDef(ability, p_def_base) ==
    IF ability # "" /\ AbilityHas(ability, "DEF") THEN 2 * p_def_base ELSE p_def_base

\* A speed that the ability leaves alone.
SpdUnbuffed(ability, p_spd_base) == p_spd_base

BuffedSpd(ability, p_spd_base) ==
    IF ability # "" /\ ~AbilityHas(ability, "DEF") /\ AbilityHas(ability, "SPD")
    THEN 2 * p_spd_base ELSE p_spd_base

\* int(p_atk_base * 1.5)
BuffedAtk(ability, p_atk_base) ==
    IF ability # "" /\ ~AbilityHas(ability, "DEF") /\ ~AbilityHas(ability, "SPD")
       /\ AbilityHas(ability, "ATK")
    THEN (3 * p_atk_base) \div 2 ELSE p_atk_base

\* Lines 539-553: who acts first; coin is random.choice([True, False]).
TurnOrder(p_spd, e_spd, coin) ==
    IF p_spd > e_spd THEN <<"player", "enemy">>
    ELSE IF p_spd < e_spd THEN <<"enemy", "player">>
    ELSE IF coin THEN <<"player", "enemy">> ELSE <<"enemy", "player">>

\* Lines 495-553 and 593-595: the locals before the first round. pos is the place
\* in the loop: 0 at the while test, 1 and 2 at the actors of turn_order, 3 after
\* the loop.
BattleSetup(chosen, floor, coin) ==
    LET enemy == make_enemy_for_floor(floor)
        lvl == chosen.level
        hp == ScaleStat(chosen.base.hp, lvl)
        atk == ScaleStat(chosen.base.atk, lvl)
        def == ScaleStat(chosen.base.def, lvl)
        spd == ScaleStat(chosen.base.spd, lvl)
        turns == TurnOrder(BuffedSpd(chosen.ability, spd), enemy.spd, coin)
    IN [floor |-> floor, lvl |-> lvl,
        p_hp_max |-> hp, p_atk_base |-> atk, p_def_base |-> def, p_spd_base |-> spd,
        p_atk |-> BuffedAtk(chosen.ability, atk),
        p_def |-> BuffedDef(chosen.ability, def),
        p_spd |-> BuffedSpd(chosen.ability, spd),
        e_hp_max |-> enemy.hp, e_atk |-> enemy.atk, e_def |-> enemy.def,
        e_spd |-> enemy.spd,
        player_current_hp |-> hp, enemy_current_hp |-> enemy.hp,
        turn_order |-> turns, first_striker |-> turns[1],
        current_round |-> 0, buff_applied |-> TRUE, pos |-> 0]

\* A while test without the round cap.
LoopCondNoCap(b) ==
    b.player_current_hp > 0 /\ b.enemy_current_hp > 0

\* Line 597: the while test.
LoopCond(b) ==
    b.player_current_hp > 0 /\ b.enemy_current_hp > 0 /\ b.current_round < max_turns

\* Lines 597-598: enter the next round, or leave the loop.
WhileTest(b) ==
    IF LoopCond(b)
    THEN [b EXCEPT !.current_round = b.current_round + 1, !.pos = 1]
    ELSE [b EXCEPT !.pos = 3]

\* The place after an actor that did not break: the next actor, or the while test.
NextPos(b) == IF b.pos < Len(b.turn_order) THEN b.pos + 1 ELSE 0

\* A revert that restores ATK and SPD and leaves DEF buffed.
RevertBuffAtkOnly(b) ==
    IF b.buff_applied
    THEN [b EXCEPT !.p_atk = b.p_atk_base, !.p_spd = b.p_spd_base,
                   !.buff_applied = FALSE]
    ELSE b

\* Lines 651-656: the first-turn buff ends with the player's first attack.
RevertBuff(b) ==
    IF b.buff_applied
    THEN [b EXCEPT !.p_atk = b.p_atk_base, !.p_def = b.p_def_base,
                   !.p_spd = b.p_spd_base, !.buff_applied = FALSE]
    ELSE b

\* A player's turn that does not clamp the enemy's HP at 0.
PlayerActNoClamp(b) ==
    IF b.player_current_hp <= 0 \/ b.enemy_current_hp <= 0
    THEN [b EXCEPT !.pos = 0]
    ELSE LET dmg == damage_formula(b.p_atk, b.e_def)
             hit == [b EXCEPT !.enemy_current_hp = b.enemy_current_hp - dmg]
             rev == RevertBuff(hit)
         IN IF rev.enemy_current_hp <= 0
            THEN [rev EXCEPT !.pos = 0]
            ELSE [rev EXCEPT !.pos = NextPos(b)]

\* Lines 612-659: the player's turn.
PlayerAct(b) ==
    IF b.player_current_hp <= 0 \/ b.enemy_current_hp <= 0
    THEN [b EXCEPT !.pos = 0]
    ELSE LET dmg == damage_formula(b.p_atk, b.e_def)
             hit == [b EXCEPT !.enemy_current_hp = Max(0, b.enemy_current_hp - dmg)]
             rev == RevertBuff(hit)
         IN IF rev.enemy_current_hp <= 0
            THEN [rev EXCEPT !.pos = 0]
            ELSE [rev EXCEPT !.pos = NextPos(b)]

\* Lines 661-700: the enemy's turn.
EnemyAct(b) ==
    IF b.player_current_hp <= 0 \/ b.enemy_current_hp <= 0
    THEN [b EXCEPT !.pos = 0]
    ELSE LET dmg == damage_formula(b.e_atk, b.p_def)
             hit == [b EXCEPT !.player_current_hp = Max(0, b.player_current_hp - dmg)]
         IN IF hit.player_current_hp <= 0
            THEN [hit EXCEPT !.pos = 0]
            ELSE [hit EXCEPT !.pos = NextPos(b)]

\* One step of the loop of lines 597-700.
LoopStep(b) ==
    IF b.pos = 0 THEN WhileTest(b)
    ELSE IF b.turn_order[b.pos] = "player" THEN PlayerAct(b)
    ELSE EnemyAct(b)

\* The loop of lines 597-700 run to its exit.
RECURSIVE RunBattle(_)
RunBattle(b) == IF b.pos = 3 THEN b ELSE RunBattle(LoopStep(b))

\* Lines 703-714: the result shown.
Outcome(b) ==
    IF b.enemy_current_hp <= 0 /\ b.player_current_hp > 0 THEN "Victory"
    ELSE IF b.player_current_hp <= 0 /\ b.enemy_current_hp > 0 THEN "Defeat"
    ELSE "Draw"

\* Line 743: the test that chooses rewards over the penalty.
Won(b) == b.enemy_current_hp <= 0 /\ b.player_current_hp > 0

---------------------------------------------------------------------------
(* The store, the cards and the progression rules *)

\* Lines 101-112: the record of a player on first reference.
NewUser ==
    [stamina |-> 20, gold |-> 0, inventory |-> << >>, last_hourly |-> 0,
     level |-> 1, exp |-> 0, floor |-> 1, floor_unlocked |-> 1, selected |-> NoneId]

\* ensure_user: creates the record when absent. Its migration loop (lines 113-129)
\* fills fields that a card lacks; every card of the model has them all, so the
\* loop changes nothing.
ensure_user(d, uid) ==
    IF uid \in DOMAIN d THEN d ELSE [u \in DOMAIN d \cup {uid} |-> IF u = uid THEN NewUser ELSE d[u]]

\* The keys of data["users"] after ensure_user: a new player's key comes last.
KeysAfter(keys, uid) ==
    IF \E i \in 1..Len(keys) : keys[i] = uid THEN keys ELSE Append(keys, uid)

\* A level-up loop that asks for more than the threshold.
RECURSIVE LevelUpAboveThreshold(_)
LevelUpAboveThreshold(user) ==
    IF user.exp > exp_to_next(user.level)
    THEN LevelUpAboveThreshold(
             [user EXCEPT !.exp = user.exp - exp_to_next(user.level),
                          !.level = user.level + 1,
                          !.stamina = user.stamina + LEVEL_STAMINA_BONUS])
    ELSE user

RECURSIVE maybe_level_up_user(_)
maybe_level_up_user(user) ==
    IF user.exp >= exp_to_next(user.level)
    THEN maybe_level_up_user(
             [user EXCEPT !.exp = user.exp - exp_to_next(user.level),
                          !.level = user.level + 1,
                          !.stamina = user.stamina + LEVEL_STAMINA_BONUS])
    ELSE user

create_card_instance(card_base, rarity, ms, rnd) ==
    [instance_id |-> [tid |-> card_base.id, ts |-> ms, rnd |-> rnd],
     id |-> card_base.id, name |-> card_base.name, rarity |-> rarity,
     level |-> 1, exp |-> 0, max_level |-> RARITY_MAX_LEVEL[rarity],
     base |-> card_base.base, ability |-> card_base.ability]

\* Lines 181-186: int(parts[1]) of the split instance id, 0 when that fails.
inst_time(c) ==
    LET parts == SplitId(c.instance_id)
    IN IF Len(parts) >= 2 /\ parts[2].num THEN parts[2].n ELSE 0

\* Lines 189-193: the sort key.
SortKey(c) == << -RARITY_RANK[c.rarity], -c.level, -inst_time(c) >>

\* Tuples of three integers in Python's order.
KeyLess(k1, k2) ==
    \/ k1[1] < k2[1]
    \/ k1[1] = k2[1] /\ k1[2] < k2[2]
    \/ k1[1] = k2[1] /\ k1[2] = k2[2] /\ k1[3] < k2[3]

\* sort_inventory: sorted() is stable, so a card's place is the number of cards with
\* a smaller key plus the number of earlier cards with an equal key. inv is a
\* list of card references into c.
sort_inventory(inv, c) ==
    LET n == Len(inv)
        before(i) == { j \in 1..n : \/ KeyLess(SortKey(c[inv[j]]), SortKey(c[inv[i]]))
                                    \/ /\ SortKey(c[inv[j]]) = SortKey(c[inv[i]])
                                       /\ j < i }
    IN [k \in 1..n |-> inv[CHOOSE i \in 1..n : Cardinality(before(i)) = k - 1]]

\* Lines 483-486: the first card of the inventory with the selected id, 0 for None.
FindSelected(inv, c, selected_id) ==
    IF \E i \in 1..Len(inv) : c[inv[i]].instance_id = selected_id
    THEN inv[CHOOSE i \in 1..Len(inv) :
                 /\ c[inv[i]].instance_id = selected_id
                 /\ \A j \in 1..(i - 1) : c[inv[j]].instance_id # selected_id]
    ELSE 0

\* A battle start that takes no stamina.
ChargeNothing(user) == user

\* Line 492.
ChargeStamina(user) == [user EXCEPT !.stamina = user.stamina - BATTLE_COST]

\* A penalty that is not floored at 0.
LossPenaltyNoFloor(user) == [user EXCEPT !.stamina = user.stamina - LOSS_PENALTY]

\* Lines 776 and 784.
LossPenalty(user) == [user EXCEPT !.stamina = Max(0, user.stamina - LOSS_PENALTY)]

\* Rewards that do not grow with the floor.
GrantRewardsFlat(user, floor) ==
    [user EXCEPT !.gold = user.gold + 50, !.exp = user.exp + 30]

\* Lines 744-748: gold and user experience of a win on floor.
GrantRewards(user, floor) ==
    [user EXCEPT !.gold = user.gold + (50 + floor * 10),
                 !.exp = user.exp + (30 + floor * 5)]

\* An unlock that sets the unlocked floor without comparing.
UnlockAlways(user, floor) == [user EXCEPT !.floor_unlocked = floor + 1]

\* Lines 763-764.
UnlockNext(user, floor) ==
    IF user.floor_unlocked < floor + 1
    THEN [user EXCEPT !.floor_unlocked = floor + 1]
    ELSE user

\* Lines 754-760: the level-ups of the chosen card.
RECURSIVE BattleCardLevelUp(_)
BattleCardLevelUp(chosen) ==
    IF chosen.level < chosen.max_level /\ chosen.exp >= 100 * chosen.level
    THEN BattleCardLevelUp([chosen EXCEPT !.exp = chosen.exp - 100 * chosen.level,
                                          !.level = chosen.level + 1])
    ELSE chosen

\* Lines 750-760: the chosen card after a win on floor.
RewardCard(chosen, floor) ==
    BattleCardLevelUp([chosen EXCEPT !.exp = chosen.exp + (40 + floor * 10)])

\* Lines 743-764: the player's record after a win on floor.
RewardUser(user, floor) ==
    UnlockNext(maybe_level_up_user(GrantRewards(user, floor)), floor)

\* json.dump of the store: each player's record with the cards of its inventory
\* written out.
DumpUser(user, c) ==
    [user EXCEPT !.inventory = [i \in 1..Len(user.inventory) |-> c[user.inventory[i]]]]

Dump(d, c) == [ok |-> TRUE, users |-> [u \in DOMAIN d |-> DumpUser(d[u], c)]]

---------------------------------------------------------------------------
(* battle_cmd *)

\* A handler of battle_cmd: its player, its place, the card object bound to
\* `chosen` (0: none) and the locals of the fight.
\*   pc: "saving"    suspended in the save_data of line 493
\*       "fighting"  in the loop of lines 597-700 (place b.pos)
\*       "done"      after line 766 or 777
\*       "rejected"  returned at line 475, 478 or 489
BattleTask(uid, pc, chosen) ==
    [cmd |-> "battle", uid |-> uid, pc |-> pc, chosen |-> chosen, b |-> NoLocals,
     n |-> 0, off |-> 0]

\* Lines 472-492 on store d and card objects c: whether the battle is accepted,
\* the store afterwards and the card bound to `chosen`.
BattleStartResult(d, c, uid) ==
    LET d1 == ensure_user(d, uid)
        user == d1[uid]
        chosen == FindSelected(user.inventory, c, user.selected)
    IN IF user.stamina < BATTLE_COST THEN [ok |-> FALSE, d |-> d1, chosen |-> 0]
       ELSE IF user.selected = NoneId THEN [ok |-> FALSE, d |-> d1, chosen |-> 0]
       ELSE IF chosen = 0 THEN [ok |-> FALSE, d |-> d1, chosen |-> 0]
       ELSE [ok |-> TRUE, d |-> [d1 EXCEPT ![uid] = ChargeStamina(user)], chosen |-> chosen]

\* Lines 742-786 on store d and card objects c, for the locals b after the loop.
BattleFinishResult(d, c, uid, chosen, b) ==
    IF Won(b)
    THEN [d |-> [d EXCEPT ![uid] = RewardUser(d[uid], b.floor)],
          c |-> [c EXCEPT ![chosen] = RewardCard(c[chosen], b.floor)]]
    ELSE [d |-> [d EXCEPT ![uid] = LossPenalty(d[uid])], c |-> c]

\* battle_cmd, lines 472-493: the checks, the stamina charge and the save.
BattleStart(uid) ==
    LET r == BattleStartResult(data, cards, uid)
    IN /\ data' = r.d
       /\ tasks' = Append(tasks, BattleTask(uid, IF r.ok THEN "saving" ELSE "rejected", r.chosen))
       /\ file' = IF r.ok THEN Dump(r.d, cards) ELSE file
       /\ issued' = issued + 1
       /\ order' = KeysAfter(order, uid)
       /\ UNCHANGED <<cards, clock, lock, wlog>>

\* battle_cmd, lines 495-595, resumed after the save: floor, stats, buff, turn order.
BattleLoad(t) ==
    /\ tasks[t].cmd = "battle" /\ tasks[t].pc = "saving"
    /\ \E coin \in BOOLEAN :
          tasks' = [tasks EXCEPT ![t].pc = "fighting",
                                 ![t].b = BattleSetup(cards[tasks[t].chosen],
                                                      data[tasks[t].uid].floor, coin)]
    /\ UNCHANGED <<data, order, cards, clock, file, lock, wlog, issued>>

\* battle_cmd, lines 597-598: the while test.
BattleWhile(t) ==
    /\ tasks[t].cmd = "battle" /\ tasks[t].pc = "fighting" /\ tasks[t].b.pos = 0
    /\ tasks' = [tasks EXCEPT ![t].b = WhileTest(tasks[t].b)]
    /\ UNCHANGED <<data, order, cards, clock, file, lock, wlog, issued>>

\* battle_cmd, lines 612-659: the player's turn.
BattlePlayerTurn(t) ==
    /\ tasks[t].cmd = "battle" /\ tasks[t].pc = "fighting" /\ tasks[t].b.pos \in {1, 2}
    /\ tasks[t].b.turn_order[tasks[t].b.pos] = "player"
    /\ tasks' = [tasks EXCEPT ![t].b = PlayerAct(tasks[t].b)]
    /\ UNCHANGED <<data, order, cards, clock, file, lock, wlog, issued>>

\* battle_cmd, lines 661-700: the enemy's turn.
BattleEnemyTurn(t) ==
    /\ tasks[t].cmd = "battle" /\ tasks[t].pc = "fighting" /\ tasks[t].b.pos \in {1, 2}
    /\ tasks[t].b.turn_order[tasks[t].b.pos] = "enemy"
    /\ tasks' = [tasks EXCEPT ![t].b = EnemyAct(tasks[t].b)]
    /\ UNCHANGED <<data, order, cards, clock, file, lock, wlog, issued>>

\* battle_cmd, lines 702-786, after the loop: rewards or penalty, and the save.
BattleFinish(t) ==
    /\ tasks[t].cmd = "battle" /\ tasks[t].pc = "fighting" /\ tasks[t].b.pos = 3
    /\ LET r == BattleFinishResult(data, cards, tasks[t].uid, tasks[t].chosen, tasks[t].b)
       IN /\ data' = r.d
          /\ cards' = r.c
          /\ file' = Dump(r.d, r.c)
    /\ tasks' = [tasks EXCEPT ![t].pc = "done"]
    /\ UNCHANGED <<order, clock, lock, wlog, issued>>

\* battle_cmd, lines 597-786 in one step: the loop touches only the handler's
\* locals, so its attacks are run to the loop's exit where the rewards are applied.
BattleResolve(t) ==
    /\ tasks[t].cmd = "battle" /\ tasks[t].pc = "fighting" /\ tasks[t].b.pos = 0
    /\ LET b == RunBattle(tasks[t].b)
           r == BattleFinishResult(data, cards, tasks[t].uid, tasks[t].chosen, b)
       IN /\ data' = r.d
          /\ cards' = r.c
          /\ file' = Dump(r.d, r.c)
          /\ tasks' = [tasks EXCEPT ![t].pc = "done", ![t].b = b]
    /\ UNCHANGED <<order, clock, lock, wlog, issued>>

---------------------------------------------------------------------------
(* BattleSpec: one battle of one player, one attack at a time *)

\* Cards of a store written under an earlier catalog. A card carries its own base
\* stats and ability (line 158) and load_data takes them from data.json as they
\* are, so the resolver also meets fighters that today's CHARACTERS does not mint.
LEGACY ==
    << [id |-> "warden", name |-> "Warden",
        base |-> [hp |-> 89, atk |-> 7, def |-> 48, spd |-> 10],
        ability |-> "First turn: +100% DEF"],
       [id |-> "runner", name |-> "Runner",
        base |-> [hp |-> 89, atk |-> 65, def |-> 92, spd |-> 10],
        ability |-> "First turn: +100% SPD"] >>

\* levels of the fighter at the start of BattleSpec's battle
MaxStartLevel == 2

Range(f) == { f[i] : i \in DOMAIN f }

\* The fighters BattleSpec starts with: a Common card of every template at each
\* level up to MaxStartLevel.
Fighters ==
    { [create_card_instance(tpl, "Common", 1, RandLow) EXCEPT !.level = l] :
          tpl \in Range(CHARACTERS) \cup Range(LEGACY), l \in 1..MaxStartLevel }

\* The stamina values BattleSpec starts with: too little, just enough (the penalty
\* floors at 0), and the default.
StartStamina == {4, 5, 7, 20}

BattleInit ==
    /\ \E f \in Fighters, s \in StartStamina, fl \in 1..MaxStartFloor :
          /\ cards = << f >>
          /\ data = [u \in {1} |->
                       [NewUser EXCEPT !.stamina = s, !.floor = fl, !.floor_unlocked = fl,
                                       !.inventory = <<1>>, !.selected = f.instance_id]]
    /\ order = <<1>>
    /\ tasks = << >>
    /\ clock = 1
    /\ file = Dump(data, cards)
    /\ lock = [locked |-> FALSE, waiters |-> << >>]
    /\ wlog = NoLog
    /\ issued = 0

BattleNext ==
    \/ tasks = << >> /\ BattleStart(1)
    \/ \E t \in DOMAIN tasks : BattleLoad(t)
    \/ \E t \in DOMAIN tasks : BattleWhile(t)
    \/ \E t \in DOMAIN tasks : BattlePlayerTurn(t)
    \/ \E t \in DOMAIN tasks : BattleEnemyTurn(t)
    \/ \E t \in DOMAIN tasks : BattleFinish(t)

\* A started handler runs on: its awaits are sleeps, message edits and the save.
BattleSpec == BattleInit /\ [][BattleNext]_vars /\ WF_vars(BattleNext)

---------------------------------------------------------------------------
(* Claims on BattleSpec *)

\* The step of handler t that leaves the loop and applies rewards or the penalty.
Resolves(t) ==
    /\ t \in DOMAIN tasks
    /\ tasks[t].cmd = "battle" /\ tasks[t].pc = "fighting" /\ tasks'[t].pc = "done"

Stamina(d, uid) == d[uid].stamina

IsVictory(b) == b.enemy_current_hp = 0 /\ b.player_current_hp > 0
IsDefeat(b) == b.player_current_hp = 0 /\ b.enemy_current_hp > 0
IsCapDraw(b) ==
    b.current_round = 40 /\ b.player_current_hp > 0 /\ b.enemy_current_hp > 0

\* C2: every accepted battle ends after at most 40 rounds in exactly one of
\* Victory, Defeat and Draw, and a Draw only with 40 rounds played and both alive.
C2_TerminalOutcome ==
    /\ [](\A t \in DOMAIN tasks :
             /\ tasks[t].b.current_round <= 40
             /\ tasks[t].pc = "done" =>
                   /\ Outcome(tasks[t].b) = "Victory" <=> IsVictory(tasks[t].b)
                   /\ Outcome(tasks[t].b) = "Defeat" <=> IsDefeat(tasks[t].b)
                   /\ Outcome(tasks[t].b) = "Draw" <=> IsCapDraw(tasks[t].b)
                   /\ Cardinality({ o \in {1, 2, 3} :
                          \/ o = 1 /\ IsVictory(tasks[t].b)
                          \/ o = 2 /\ IsDefeat(tasks[t].b)
                          \/ o = 3 /\ IsCapDraw(tasks[t].b) }) = 1)
    /\ <>(tasks # << >> /\ \A t \in DOMAIN tasks : tasks[t].pc \in {"done", "rejected"})

\* C2 witness: a battle has ended in a Draw at the cap, another case aside.
C2_Witness ==
    \E t \in DOMAIN tasks : tasks[t].pc = "done" /\ IsCapDraw(tasks[t].b)

\* The buffed stats the claim speaks of, from the card's ability text.
ClaimBuffedDef(card, b) ==
    IF card.ability = "First turn: +100% DEF" THEN 2 * b.p_def_base ELSE b.p_def_base

ClaimBuffedAtk(card, b) ==
    IF card.ability = "First turn: +50% ATK" THEN (3 * b.p_atk_base) \div 2 ELSE b.p_atk_base

\* The player has not attacked yet: every attack takes at least 1 HP.
NoPlayerAttackYet(b) == b.enemy_current_hp = b.e_hp_max

\* C3: the buff lasts until the player's first attack has resolved: an enemy attack
\* before it meets the buffed DEF and one after it the unbuffed DEF; the player's
\* first attack uses the buffed ATK and every later one the unbuffed ATK.
C3_BuffUntilFirstAttack ==
    [][\A t \in DOMAIN tasks :
          LET b == tasks[t].b
              b2 == tasks'[t].b
              card == cards[tasks[t].chosen]
          IN (tasks[t].pc = "fighting" /\ tasks'[t].pc = "fighting") =>
               /\ b2.player_current_hp # b.player_current_hp =>
                     b2.player_current_hp =
                        Max(0, b.player_current_hp
                               - damage_formula(b.e_atk,
                                    IF NoPlayerAttackYet(b) THEN ClaimBuffedDef(card, b)
                                    ELSE b.p_def_base))
               /\ b2.enemy_current_hp # b.enemy_current_hp =>
                     b2.enemy_current_hp =
                        Max(0, b.enemy_current_hp
                               - damage_formula(
                                    IF NoPlayerAttackYet(b) THEN ClaimBuffedAtk(card, b)
                                    ELSE b.p_atk_base, b.e_def))]_vars

\* C3 witness: the enemy acted first and hit a DEF-buffed player whose buff changed
\* the damage, and the player has since attacked and lost the buff.
C3_Witness ==
    \E t \in DOMAIN tasks :
        LET b == tasks[t].b
        IN /\ tasks[t].pc = "fighting"
           /\ b.first_striker = "enemy"
           /\ cards[tasks[t].chosen].ability = "First turn: +100% DEF"
           /\ b.current_round = 2
           /\ b.player_current_hp = b.p_hp_max - damage_formula(b.e_atk, 2 * b.p_def_base)
                                               - damage_formula(b.e_atk, b.p_def_base)
           /\ damage_formula(b.e_atk, 2 * b.p_def_base) # damage_formula(b.e_atk, b.p_def_base)
           /\ b.enemy_current_hp < b.e_hp_max

\* C24: in a battle both HP stay within 0 and their maximum; once either is 0 no
\* attack follows, in that round or later (neither HP changes again and no round
\* begins), so the two are never both 0.
C24_HpRangeAndStop ==
    /\ [](\A t \in DOMAIN tasks :
            tasks[t].pc \in {"fighting", "done"} =>
               LET b == tasks[t].b
               IN /\ 0 <= b.player_current_hp /\ b.player_current_hp <= b.p_hp_max
                  /\ 0 <= b.enemy_current_hp /\ b.enemy_current_hp <= b.e_hp_max
                  /\ ~(b.player_current_hp = 0 /\ b.enemy_current_hp = 0))
    /\ [][\A t \in DOMAIN tasks :
            LET b == tasks[t].b
                b2 == tasks'[t].b
            IN (tasks[t].pc = "fighting"
                /\ (b.player_current_hp = 0 \/ b.enemy_current_hp = 0)) =>
                  /\ b2.player_current_hp = b.player_current_hp
                  /\ b2.enemy_current_hp = b.enemy_current_hp
                  /\ b2.current_round = b.current_round]_vars

\* C24 witness: the enemy, acting first, brought the player to 0 in a later round,
\* and the battle ended with the enemy's HP where it stood before that round's
\* player turn: below its maximum and above 0.
C24_Witness ==
    \E t \in DOMAIN tasks :
        LET b == tasks[t].b
        IN /\ tasks[t].pc = "done"
           /\ b.first_striker = "enemy"
           /\ b.current_round >= 2
           /\ b.player_current_hp = 0
           /\ 0 < b.enemy_current_hp /\ b.enemy_current_hp < b.e_hp_max

\* The fighter of the worked example: a level-1 Common card with base
\* {hp 89, atk 65, def 92, spd 65} and the DEF ability, at floor 1.
IsExample(t) ==
    LET card == cards[tasks[t].chosen]
    IN /\ tasks[t].pc \in {"fighting", "done"}
       /\ card.base = [hp |-> 89, atk |-> 65, def |-> 92, spd |-> 65]
       /\ card.ability = "First turn: +100% DEF"
       /\ card.rarity = "Common"
       /\ tasks[t].b.lvl = 1
       /\ tasks[t].b.floor = 1

\* The places of the worked example, as <<round, HP of the player, HP of the
\* enemy, DEF of the player, attacks left in the round>>: the start, round 1 before
\* the player's attack, after it (60 dealt), after the enemy's (1 dealt), round 2
\* before the player's attack and after it.
ExamplePlaces ==
    { <<0, 89, 120, 184, 0>>,
      <<1, 89, 120, 184, 2>>, <<1, 89, 60, 92, 1>>, <<1, 88, 60, 92, 0>>,
      <<2, 88, 60, 92, 2>>, <<2, 88, 0, 92, 0>> }

\* The attacks left in the round at place pos of a round of two actors.
AttacksLeft(b) == IF b.pos \in {1, 2} THEN 3 - b.pos ELSE 0

\* C20: the level-1 Common card {hp 89, atk 65, def 92, spd 65} with the DEF
\* ability against the floor-1 enemy {hp 120, atk 25, def 10, spd 20}: the DEF is
\* 184 at the start, the player acts first whatever the coin, round 1 has the player
\* deal 60 and the enemy 1, and the battle ends in round 2 as a Victory with player
\* HP 88 and enemy HP 0.
C20_WorkedExample ==
    \A t \in DOMAIN tasks :
        IsExample(t) =>
          LET b == tasks[t].b
          IN /\ <<b.e_hp_max, b.e_atk, b.e_def, b.e_spd>> = <<120, 25, 10, 20>>
             /\ b.turn_order = <<"player", "enemy">>
             /\ b.first_striker = "player"
             /\ <<b.current_round, b.player_current_hp, b.enemy_current_hp, b.p_def,
                  AttacksLeft(b)>> \in ExamplePlaces
             /\ (b.pos = 3 \/ tasks[t].pc = "done") =>
                   /\ b.current_round = 2
                   /\ b.player_current_hp = 88 /\ b.enemy_current_hp = 0
                   /\ Outcome(b) = "Victory"

\* C20 witness: the worked example's battle is over, and it went through the
\* enemy's attack of round 1.
C20_Witness ==
    \E t \in DOMAIN tasks :
        /\ IsExample(t) /\ tasks[t].pc = "done"
        /\ tasks[t].b.current_round = 2
        /\ tasks[t].b.player_current_hp = tasks[t].b.p_hp_max - 1
        /\ tasks[t].b.enemy_current_hp = 0

---------------------------------------------------------------------------
(* StatSpec: one battle of a stored card with small or large base stats *)

\* largest small base stat of StatSpec's fighters
MaxStat == 9

\* the base DEF from which an enemy of floor 1 or 2 deals the minimum
HighDef == 70

\* The base stats StatSpec's fighters carry in data.json: every ATK up to MaxStat
\* (below half the enemy's DEF on the higher floors) and every DEF up to MaxStat
\* or from HighDef up (at and above twice the enemy's ATK of floors 1 and 2).
StatFighters ==
    { [create_card_instance(LEGACY[1], "Common", 1, RandLow)
          EXCEPT !.base = [hp |-> 3, atk |-> a, def |-> d, spd |-> 65]] :
        a \in 0..MaxStat,
        d \in (0..MaxStat) \cup { HighDef + k : k \in 0..MaxStat } }

StatInit ==
    /\ \E f \in StatFighters, fl \in 1..MaxStartFloor :
          /\ cards = << f >>
          /\ data = [u \in {1} |->
                       [NewUser EXCEPT !.floor = fl, !.floor_unlocked = fl,
                                       !.inventory = <<1>>, !.selected = f.instance_id]]
    /\ order = <<1>>
    /\ tasks = << >>
    /\ clock = 1
    /\ file = Dump(data, cards)
    /\ lock = [locked |-> FALSE, waiters |-> << >>]
    /\ wlog = NoLog
    /\ issued = 0

StatSpec == StatInit /\ [][BattleNext]_vars

---------------------------------------------------------------------------
(* Claims on StatSpec *)

\* The damage the claim speaks of: max(1, floor(atk - def / 2)).
ClaimDamage(atk, def) == Max(1, (2 * atk - def) \div 2)

\* C21: damage_formula(atk, def) is max(1, floor(atk - def / 2)) for non-negative
\* atk and def: every attack of a battle takes that much from the defender's HP,
\* clamped at 0, and so strictly lowers it.
C21_DamageAtLeastOne ==
    [][\A t \in DOMAIN tasks :
          LET b == tasks[t].b
              b2 == tasks'[t].b
          IN /\ BattlePlayerTurn(t) =>
                  /\ b.p_atk >= 0 /\ b.e_def >= 0
                  /\ b2.enemy_current_hp =
                        Max(0, b.enemy_current_hp - ClaimDamage(b.p_atk, b.e_def))
                  /\ b2.enemy_current_hp < b.enemy_current_hp
                  /\ b2.player_current_hp = b.player_current_hp
             /\ BattleEnemyTurn(t) =>
                  /\ b.e_atk >= 0 /\ b.p_def >= 0
                  /\ b2.player_current_hp =
                        Max(0, b.player_current_hp - ClaimDamage(b.e_atk, b.p_def))
                  /\ b2.player_current_hp < b.player_current_hp
                  /\ b2.enemy_current_hp = b.enemy_current_hp]_vars

\* C21 witness: the player's attack had ATK minus half the DEF negative and not
\* whole (truncation and floor differ there) and took 1 HP, and the enemy's attack
\* met a DEF above twice its ATK and took 1 HP.
C21_Witness ==
    \E t \in DOMAIN tasks :
        LET b == tasks[t].b
        IN /\ tasks[t].pc = "fighting"
           /\ 2 * b.p_atk_base - b.e_def < 0
           /\ (2 * b.p_atk_base - b.e_def) % 2 = 1
           /\ b.enemy_current_hp = b.e_hp_max - 1
           /\ 2 * b.e_atk - b.p_def < 0
           /\ b.player_current_hp = b.p_hp_max - 1

---------------------------------------------------------------------------
(* SpeedSpec: one battle of a stored card with the SPD ability, slow or fast *)

\* largest base SPD of SpeedSpec's fighters
MaxSpd == 27

\* Stored cards like LEGACY[2] with every base SPD up to MaxSpd: slower than the
\* enemy even when doubled, faster only when doubled, level with it, and faster.
SpeedFighters ==
    { [create_card_instance(LEGACY[2], "Common", 1, RandLow)
          EXCEPT !.base = [hp |-> 89, atk |-> 65, def |-> 92, spd |-> v]] :
        v \in 1..MaxSpd }

SpeedInit ==
    /\ \E f \in SpeedFighters, fl \in 1..MaxStartFloor :
          /\ cards = << f >>
          /\ data = [u \in {1} |->
                       [NewUser EXCEPT !.floor = fl, !.floor_unlocked = fl,
                                       !.inventory = <<1>>, !.selected = f.instance_id]]
    /\ order = <<1>>
    /\ tasks = << >>
    /\ clock = 1
    /\ file = Dump(data, cards)
    /\ lock = [locked |-> FALSE, waiters |-> << >>]
    /\ wlog = NoLog
    /\ issued = 0

SpeedSpec == SpeedInit /\ [][BattleNext]_vars

---------------------------------------------------------------------------
(* Claims on SpeedSpec *)

\* The speed the claim orders by: doubled by an ability of the SPD type.
ClaimBuffedSpd(card, b) ==
    IF card.ability = "First turn: +100% SPD" THEN 2 * b.p_spd_base ELSE b.p_spd_base

\* C25: the turn order is fixed before round 1 from the buffed speeds (the faster
\* side first, either side on a tie) and is the order of every round, also after
\* the SPD buff has reverted: the first attack of each round is the first
\* striker's.
C25_TurnOrderFixed ==
    /\ [](\A t \in DOMAIN tasks :
            tasks[t].pc \in {"fighting", "done"} =>
               LET b == tasks[t].b
                   spd == ClaimBuffedSpd(cards[tasks[t].chosen], b)
               IN /\ spd > b.e_spd => b.turn_order = <<"player", "enemy">>
                  /\ spd < b.e_spd => b.turn_order = <<"enemy", "player">>
                  /\ b.turn_order \in { <<"player", "enemy">>, <<"enemy", "player">> }
                  /\ b.first_striker = b.turn_order[1])
    /\ [][\A t \in DOMAIN tasks :
            LET b == tasks[t].b
                b2 == tasks'[t].b
            IN tasks[t].pc = "fighting" =>
                 /\ b2.turn_order = b.turn_order
                 /\ b2.first_striker = b.first_striker
                 /\ (b.pos = 1 /\ b2.enemy_current_hp # b.enemy_current_hp) =>
                        b.first_striker = "player"
                 /\ (b.pos = 1 /\ b2.player_current_hp # b.player_current_hp) =>
                        b.first_striker = "enemy"
                 /\ (b.pos = 2 /\ b2.enemy_current_hp # b.enemy_current_hp) =>
                        b.first_striker = "enemy"
                 /\ (b.pos = 2 /\ b2.player_current_hp # b.player_current_hp) =>
                        b.first_striker = "player"]_vars

\* C25 witness: a card faster than the enemy only while its SPD is doubled struck
\* first in round 1 and, the buff reverted, strikes first again in round 2.
C25_Witness ==
    \E t \in DOMAIN tasks :
        LET b == tasks[t].b
        IN /\ tasks[t].pc = "fighting"
           /\ 2 * b.p_spd_base > b.e_spd /\ b.p_spd_base < b.e_spd
           /\ ~b.buff_applied /\ b.p_spd = b.p_spd_base
           /\ b.current_round = 2 /\ b.pos = 2
           /\ b.first_striker = "player"
           /\ b.enemy_current_hp = b.e_hp_max - 2 * damage_formula(b.p_atk_base, b.e_def)
           /\ b.player_current_hp = b.p_hp_max - damage_formula(b.e_atk, b.p_def_base)

---------------------------------------------------------------------------
(* The other commands of a player *)

\* drop_cmd: a card of a random template and rarity, stamped with the clock and a
\* random suffix, is appended to the inventory. The command's cooldown puts a
\* player's drops in different milliseconds.
Drop(uid) ==
    /\ \E tpl \in Range(CHARACTERS), rarity \in Range(RARITIES), rnd \in {RandLow} :
          LET d1 == ensure_user(data, uid)
              ref == Len(cards) + 1
          IN /\ Len(d1[uid].inventory) < MaxCards
             /\ cards' = Append(cards, create_card_instance(tpl, rarity, clock, rnd))
             /\ data' = [d1 EXCEPT ![uid].inventory = Append(d1[uid].inventory, ref)]
    /\ clock' = clock + 1
    /\ file' = Dump(data', cards')
    /\ issued' = issued + 1
    /\ order' = KeysAfter(order, uid)
    /\ UNCHANGED <<tasks, lock, wlog>>

\* A select that clears the selection before it validates the index.
SelectResultClearFirst(d, c, uid, index) ==
    LET d1 == ensure_user(d, uid)
        inv == d1[uid].inventory
        sorted_inv == sort_inventory(inv, c)
    IN IF Len(inv) = 0 \/ index < 1 \/ index > Len(sorted_inv)
       THEN [ok |-> FALSE, d |-> [d1 EXCEPT ![uid].selected = NoneId]]
       ELSE [ok |-> TRUE,
             d |-> [d1 EXCEPT ![uid].selected = c[sorted_inv[index]].instance_id]]

\* Lines 273-283 on store d: the store after select <index>.
SelectResult(d, c, uid, index) ==
    LET d1 == ensure_user(d, uid)
        inv == d1[uid].inventory
        sorted_inv == sort_inventory(inv, c)
    IN IF Len(inv) = 0 THEN [ok |-> FALSE, d |-> d1]
       ELSE IF index < 1 \/ index > Len(sorted_inv) THEN [ok |-> FALSE, d |-> d1]
       ELSE [ok |-> TRUE,
             d |-> [d1 EXCEPT ![uid].selected = c[sorted_inv[index]].instance_id]]

\* select_cmd
Select(uid, index) ==
    LET r == SelectResult(data, cards, uid, index)
    IN /\ data' = r.d
       /\ file' = IF r.ok THEN Dump(r.d, cards) ELSE file
       /\ issued' = issued + 1
       /\ order' = KeysAfter(order, uid)
       /\ UNCHANGED <<cards, tasks, clock, lock, wlog>>

\* Lines 371-380: the target card, by 1-based index of the sorted inventory
\* (target.kind = "index") or by instance id; 0 when there is none.
EnhanceTarget(inv, c, target) ==
    IF target.kind = "index"
    THEN IF 0 <= target.i - 1 /\ target.i - 1 < Len(inv)
         THEN sort_inventory(inv, c)[target.i] ELSE 0
    ELSE FindSelected(inv, c, target.id)

\* Lines 405-414: the cards that may be used, in inventory order. An empty flag
\* is no filter; names are compared in lower case, and the names of the model
\* differ in more than case.
RECURSIVE Candidates(_, _, _, _, _)
Candidates(inv, c, target_card, flag_r, flag_n) ==
    IF inv = << >> THEN << >>
    ELSE LET rest == Candidates(Tail(inv), c, target_card, flag_r, flag_n)
             x == Head(inv)
         IN IF x = target_card THEN rest
            ELSE IF flag_r # "" /\ c[x].rarity # flag_r THEN rest
            ELSE IF flag_n # "" /\ c[x].name # flag_n THEN rest
            ELSE <<x>> \o rest

\* candidates[:flag_l]
SlicePrefix(seq, k) ==
    IF k >= 0 THEN SubSeq(seq, 1, Min(k, Len(seq)))
    ELSE SubSeq(seq, 1, Max(0, Len(seq) + k))

\* Line 420 and 423: 50 * rarity_mul, the multipliers being 1, 1.5, 2 and 3.
SacrificeExp(rarity) ==
    CASE rarity = "Common" -> 50
      [] rarity = "Rare" -> 75
      [] rarity = "Epic" -> 100
      [] rarity = "Legendary" -> 150
      [] OTHER -> 50

RECURSIVE SumExp(_, _)
SumExp(to_use, c) ==
    IF to_use = << >> THEN 0
    ELSE SacrificeExp(c[Head(to_use)].rarity) + SumExp(Tail(to_use), c)

\* inv.remove(x): the first entry equal to the card x is removed; dicts are equal
\* when their contents are.
RECURSIVE ListRemove(_, _, _)
ListRemove(inv, c, x) ==
    IF inv = << >> THEN << >>
    ELSE IF c[Head(inv)] = c[x] THEN Tail(inv)
    ELSE <<Head(inv)>> \o ListRemove(Tail(inv), c, x)

RECURSIVE RemoveAll(_, _, _)
RemoveAll(inv, c, to_use) ==
    IF to_use = << >> THEN inv
    ELSE RemoveAll(ListRemove(inv, c, Head(to_use)), c, Tail(to_use))

\* A cascade that does not look at max_level.
RECURSIVE EnhanceLevelUpNoCap(_)
EnhanceLevelUpNoCap(target_card) ==
    IF target_card.exp >= 100 * target_card.level
    THEN EnhanceLevelUpNoCap([target_card EXCEPT !.exp = target_card.exp - 100 * target_card.level,
                                                 !.level = target_card.level + 1])
    ELSE target_card

\* Lines 429-436: the level-ups of the target card.
RECURSIVE EnhanceLevelUp(_)
EnhanceLevelUp(target_card) ==
    IF target_card.level < target_card.max_level
       /\ target_card.exp >= 100 * target_card.level
    THEN EnhanceLevelUp([target_card EXCEPT !.exp = target_card.exp - 100 * target_card.level,
                                            !.level = target_card.level + 1])
    ELSE target_card

\* Lines 367-436 on store d and card objects c.
EnhanceResult(d, c, uid, target, flag_r, flag_n, flag_l) ==
    LET d1 == ensure_user(d, uid)
        inv == d1[uid].inventory
        target_card == EnhanceTarget(inv, c, target)
        candidates == Candidates(inv, c, target_card, flag_r, flag_n)
        to_use == SlicePrefix(candidates, flag_l)
    IN IF target_card = 0 THEN [ok |-> FALSE, d |-> d1, c |-> c]
       ELSE IF Len(candidates) < flag_l THEN [ok |-> FALSE, d |-> d1, c |-> c]
       ELSE [ok |-> TRUE,
             d |-> [d1 EXCEPT ![uid].inventory = RemoveAll(inv, c, to_use)],
             c |-> [c EXCEPT ![target_card] =
                       EnhanceLevelUp([c[target_card] EXCEPT
                           !.exp = c[target_card].exp + SumExp(to_use, c)])]]

\* The arguments tried for enhance: a target by index or by id (one id that no
\* card has), a rarity and a name filter (none, or one that a held card meets) and
\* a count.
EnhanceTargets(inv, c) ==
    { [kind |-> "index", i |-> i, id |-> NoneId] : i \in 0..(Len(inv) + 1) }
    \cup { [kind |-> "id", i |-> 0, id |-> c[inv[k]].instance_id] : k \in 1..Len(inv) }
    \cup { [kind |-> "id", i |-> 0, id |-> [tid |-> "hilde", ts |-> 0, rnd |-> RandLow]] }

HeldRarities(inv, c) == { c[inv[k]].rarity : k \in 1..Len(inv) }

HeldNames(inv, c) == { c[inv[k]].name : k \in 1..Len(inv) }

\* enhance_cmd
Enhance(uid) ==
    /\ \E target \in EnhanceTargets(ensure_user(data, uid)[uid].inventory, cards),
          flag_r \in {""} \cup HeldRarities(ensure_user(data, uid)[uid].inventory, cards),
          flag_n \in {""} \cup HeldNames(ensure_user(data, uid)[uid].inventory, cards),
          flag_l \in (-1)..MaxCards :
          LET r == EnhanceResult(data, cards, uid, target, flag_r, flag_n, flag_l)
          IN /\ data' = r.d
             /\ cards' = r.c
             /\ file' = IF r.ok THEN Dump(r.d, r.c) ELSE file
    /\ issued' = issued + 1
    /\ order' = KeysAfter(order, uid)
    /\ UNCHANGED <<tasks, clock, lock, wlog>>

\* A floor next without the unlock test.
FloorNextNoLock(user) ==
    IF user.floor >= MAX_FLOOR THEN [ok |-> FALSE, user |-> user]
    ELSE [ok |-> TRUE, user |-> [user EXCEPT !.floor = user.floor + 1]]

\* Lines 805-813 on the player's record: floor next.
FloorNextResult(user) ==
    IF user.floor >= MAX_FLOOR THEN [ok |-> FALSE, user |-> user]
    ELSE IF user.floor_unlocked < user.floor + 1 THEN [ok |-> FALSE, user |-> user]
    ELSE [ok |-> TRUE, user |-> [user EXCEPT !.floor = user.floor + 1]]

\* A floor <n> that compares with the unlocked floor exclusively.
FloorSetBelowUnlocked(user, n) ==
    IF 1 <= n /\ n < user.floor_unlocked
    THEN [ok |-> TRUE, user |-> [user EXCEPT !.floor = n]]
    ELSE [ok |-> FALSE, user |-> user]

\* Lines 819-827 on the player's record: floor <n>.
FloorSetResult(user, n) ==
    IF 1 <= n /\ n <= user.floor_unlocked
    THEN [ok |-> TRUE, user |-> [user EXCEPT !.floor = n]]
    ELSE [ok |-> FALSE, user |-> user]

\* floor_cmd with action "next"
FloorNext(uid) ==
    LET d1 == ensure_user(data, uid)
        r == FloorNextResult(d1[uid])
    IN /\ data' = [d1 EXCEPT ![uid] = r.user]
       /\ file' = IF r.ok THEN Dump(data', cards) ELSE file
       /\ issued' = issued + 1
       /\ order' = KeysAfter(order, uid)
       /\ UNCHANGED <<cards, tasks, clock, lock, wlog>>

\* floor_cmd with a number as action
FloorSet(uid, n) ==
    LET d1 == ensure_user(data, uid)
        r == FloorSetResult(d1[uid], n)
    IN /\ data' = [d1 EXCEPT ![uid] = r.user]
       /\ file' = IF r.ok THEN Dump(data', cards) ELSE file
       /\ issued' = issued + 1
       /\ order' = KeysAfter(order, uid)
       /\ UNCHANGED <<cards, tasks, clock, lock, wlog>>

---------------------------------------------------------------------------
(* Spec: the commands of one player, interleaved at the awaits of battle_cmd *)

\* A store no command has touched yet: data.json is missing.
EmptyStore == << >>

\* A seasoned player: a Legendary Hilde raised to level 40 by enhance (520
\* Legendary sacrifices are the 78000 experience of levels 1 to 39), then one win
\* on each of the floors 1 to 9 (gold 900, user level 3 with 195 experience, 810
\* card experience), stamina kept up by hourly, now standing on floor 10.
VeteranCard ==
    [create_card_instance(CHARACTERS[1], "Legendary", 1, RandLow)
        EXCEPT !.level = 40, !.exp = 810]

VeteranStore ==
    [u \in {1} |->
        [NewUser EXCEPT !.stamina = 10, !.gold = 900, !.level = 3, !.exp = 195,
                        !.floor = 10, !.floor_unlocked = 10,
                        !.inventory = <<1>>, !.selected = VeteranCard.instance_id]]

Init ==
    /\ \/ /\ data = EmptyStore /\ order = << >> /\ cards = << >>
          /\ file = [ok |-> FALSE, users |-> << >>]
       \/ /\ data = VeteranStore /\ order = <<1>> /\ cards = << VeteranCard >>
          /\ file = Dump(data, cards)
    /\ tasks = << >>
    /\ clock = 2
    /\ lock = [locked |-> FALSE, waiters |-> << >>]
    /\ wlog = NoLog
    /\ issued = 0

\* The battle handlers suspended at an await.
InFlight == { t \in DOMAIN tasks : tasks[t].pc \in {"saving", "fighting"} }

Next ==
    \/ issued < MaxCmds /\ Drop(1)
    \/ issued < MaxCmds
          /\ \E index \in 0..(Len(ensure_user(data, 1)[1].inventory) + 1) :
                Select(1, index)
    \/ issued < MaxCmds /\ Enhance(1)
    \/ issued < MaxCmds /\ FloorNext(1)
    \/ issued < MaxCmds /\ \E n \in 0..MaxArg : FloorSet(1, n)
    \/ issued < MaxCmds /\ Cardinality(InFlight) < MaxBattles /\ BattleStart(1)
    \/ \E t \in DOMAIN tasks : BattleLoad(t)
    \/ \E t \in DOMAIN tasks : BattleResolve(t)

Spec == Init /\ [][Next]_vars

---------------------------------------------------------------------------
(* Claims on Spec *)

\* C7: every player's current floor is within 1..10, the unlocked floor is at
\* least 1 and the current floor is at most the unlocked floor.
C7_FloorRange ==
    \A u \in DOMAIN data :
        /\ 1 <= data[u].floor /\ data[u].floor <= 10
        /\ data[u].floor_unlocked >= 1
        /\ data[u].floor <= data[u].floor_unlocked

\* C8: a player's selected id is null or the instance id of a card of that
\* player's inventory.
C8_SelectedOwned ==
    \A u \in DOMAIN data :
        \/ data[u].selected = NoneId
        \/ \E i \in 1..Len(data[u].inventory) :
              cards[data[u].inventory[i]].instance_id = data[u].selected

\* The step of handler t that applies the rewards of a Victory.
WinsNow(t) == Resolves(t) /\ IsVictory(tasks'[t].b)

\* C9: a Victory on floor F raises the unlocked floor to F+1 exactly when it
\* equals F at reward time and leaves it otherwise; the unlocked floor never
\* decreases, and rises only in a Victory and then by 1.
C9_UnlockByOne ==
    [][/\ \A t \in DOMAIN tasks :
             WinsNow(t) =>
                data'[tasks[t].uid].floor_unlocked =
                   IF data[tasks[t].uid].floor_unlocked = tasks'[t].b.floor
                   THEN tasks'[t].b.floor + 1
                   ELSE data[tasks[t].uid].floor_unlocked
       /\ \A u \in DOMAIN data :
             /\ data'[u].floor_unlocked >= data[u].floor_unlocked
             /\ data'[u].floor_unlocked <= data[u].floor_unlocked + 1
             /\ data'[u].floor_unlocked # data[u].floor_unlocked =>
                   \E t \in DOMAIN tasks : WinsNow(t) /\ tasks[t].uid = u]_vars

\* C9 witness: one Victory has raised the unlocked floor to its floor plus 1 and
\* another, on a floor further below, has left it alone.
C9_Witness ==
    \E t1, t2 \in DOMAIN tasks :
        /\ tasks[t1].pc = "done" /\ IsVictory(tasks[t1].b)
        /\ tasks[t2].pc = "done" /\ IsVictory(tasks[t2].b)
        /\ data[tasks[t1].uid].floor_unlocked = tasks[t1].b.floor + 1
        /\ data[tasks[t2].uid].floor_unlocked > tasks[t2].b.floor + 1

\* The step that accepts a battle: a new handler appears, suspended in its save.
StartsNow ==
    /\ Len(tasks') = Len(tasks) + 1
    /\ tasks'[Len(tasks')].cmd = "battle"
    /\ tasks'[Len(tasks')].pc = "saving"

\* C10: an accepted battle takes exactly 5 stamina and issues a save of the store
\* before round 1, and no outcome gives the 5 back: at resolution the stamina
\* changes only by the 5 per user level gained in a Victory, and does not rise
\* otherwise.
C10_ChargedBeforeRoundOne ==
    [][/\ StartsNow =>
             LET u == tasks'[Len(tasks')].uid
             IN /\ data'[u].stamina = data[u].stamina - 5
                /\ file' = Dump(data', cards')
                /\ tasks'[Len(tasks')].b.current_round = 0
                /\ tasks'[Len(tasks')].b.pos = 0
       /\ \A t \in DOMAIN tasks :
             /\ (tasks[t].pc = "saving" /\ tasks'[t].pc = "fighting") =>
                   tasks'[t].b.current_round = 0 /\ data' = data
             /\ Resolves(t) =>
                   LET u == tasks[t].uid
                   IN IF IsVictory(tasks'[t].b)
                      THEN data'[u].stamina =
                              data[u].stamina + 5 * (data'[u].level - data[u].level)
                      ELSE data'[u].stamina <= data[u].stamina]_vars

\* C10 witness: a battle has been charged and saved and has not begun round 1, while
\* an earlier battle of the player has already been resolved.
C10_Witness ==
    \E t, t0 \in DOMAIN tasks :
        /\ tasks[t].pc = "saving" /\ tasks[t].b.current_round = 0
        /\ tasks[t0].pc = "done"
        /\ file.ok /\ file.users[tasks[t].uid].stamina = data[tasks[t].uid].stamina

\* The cards of player uid's inventory in store d, written out.
Held(d, c, uid) == DumpUser(d[uid], c)

\* C11: a rejected command leaves the player's record and every card of the
\* inventory as they were: select with an index outside 1..len(inventory), enhance
\* with a target that is not found or with fewer candidates than the count, and
\* battle with stamina below 5, with no selection or with a selected id that no
\* card of the inventory has. (The record of a player seen for the first time is
\* the one ensure_user creates.)
C11_RejectedUnchanged ==
    /\ [](LET before == ensure_user(data, 1)
              inv == before[1].inventory
          IN /\ \A index \in 0..(Len(inv) + 1) :
                   LET r == SelectResult(data, cards, 1, index)
                   IN ~r.ok => Held(r.d, cards, 1) = Held(before, cards, 1)
             /\ \A target \in EnhanceTargets(inv, cards),
                   flag_r \in {""} \cup HeldRarities(inv, cards),
                   flag_n \in {""} \cup HeldNames(inv, cards),
                   flag_l \in (-1)..MaxCards :
                   LET r == EnhanceResult(data, cards, 1, target, flag_r, flag_n, flag_l)
                   IN ~r.ok => Held(r.d, r.c, 1) = Held(before, cards, 1)
             /\ LET r == BattleStartResult(data, cards, 1)
                IN ~r.ok => Held(r.d, cards, 1) = Held(before, cards, 1))
    /\ [][\A t \in DOMAIN tasks' :
              (t \notin DOMAIN tasks /\ tasks'[t].pc = "rejected") =>
                  /\ Held(data', cards', tasks'[t].uid)
                        = Held(ensure_user(data, tasks'[t].uid), cards, tasks'[t].uid)
                  /\ file' = file]_vars

\* C11 witness: a battle was rejected although the player holds a card and has a
\* selection (too little stamina, or the selected card is gone), and a select and
\* an enhance that are rejected exist in this state.
C11_Witness ==
    /\ \E t \in DOMAIN tasks : tasks[t].pc = "rejected"
    /\ 1 \in DOMAIN data
    /\ data[1].inventory # << >> /\ data[1].selected # NoneId
    /\ ~SelectResult(data, cards, 1, Len(data[1].inventory) + 1).ok
    /\ ~EnhanceResult(data, cards, 1, [kind |-> "index", i |-> 1, id |-> NoneId],
                      "", "", MaxCards).ok

\* The creation time of a card: the millisecond create_card_instance stamps into
\* the instance id.
CreatedAt(card) == card.instance_id.ts

\* The order the claim gives: rarity rank descending, then level descending, then
\* creation time descending.
ClaimPrecedes(c1, c2) ==
    \/ RARITY_RANK[c1.rarity] > RARITY_RANK[c2.rarity]
    \/ /\ RARITY_RANK[c1.rarity] = RARITY_RANK[c2.rarity]
       /\ c1.level > c2.level
    \/ /\ RARITY_RANK[c1.rarity] = RARITY_RANK[c2.rarity]
       /\ c1.level = c2.level
       /\ CreatedAt(c1) > CreatedAt(c2)

\* C16: sort_inventory puts a player's cards in the order of rarity rank
\* descending, then level descending, then creation time descending (newest
\* first), for the cards of every template.
C16_SortOrder ==
    \A u \in DOMAIN data :
        LET sorted_inv == sort_inventory(data[u].inventory, cards)
        IN \A i, j \in 1..Len(sorted_inv) :
              i < j => ClaimPrecedes(cards[sorted_inv[i]], cards[sorted_inv[j]])

\* C17: the sort key is a strict total order on the cards of an inventory: of two
\* distinct cards exactly one precedes the other, and sorting the unchanged
\* inventory again gives the same sequence.
C17_StrictTotalOrder ==
    \A u \in DOMAIN data :
        LET inv == data[u].inventory
        IN /\ \A i, j \in 1..Len(inv) :
                 i # j =>
                    (KeyLess(SortKey(cards[inv[i]]), SortKey(cards[inv[j]]))
                       # KeyLess(SortKey(cards[inv[j]]), SortKey(cards[inv[i]])))
           /\ sort_inventory(inv, cards) = sort_inventory(inv, cards)

\* C26: whatever the interleaving of a player's commands, two overlapping battles
\* included, the player's stamina and gold are never negative.
C26_NeverNegative ==
    \A u \in DOMAIN data : data[u].stamina >= 0 /\ data[u].gold >= 0

\* C26 witness: two battles of the player are suspended at once, both charged,
\* and the stamina is 0: neither can pay a penalty of 3.
C26_Witness ==
    /\ \E t1, t2 \in InFlight : t1 # t2 /\ tasks[t1].uid = 1 /\ tasks[t2].uid = 1
    /\ data[1].stamina = 0

\* C27: the card a Victory credits with experience is in the player's inventory
\* when the rewards are applied, whatever enhance did while the battle was
\* suspended.
C27_CreditedCardOwned ==
    [][\A t \in DOMAIN tasks :
          WinsNow(t) =>
             /\ cards'[tasks[t].chosen].exp # cards[tasks[t].chosen].exp
                   \/ cards'[tasks[t].chosen].level # cards[tasks[t].chosen].level
             /\ \E i \in 1..Len(data[tasks[t].uid].inventory) :
                   data[tasks[t].uid].inventory[i] = tasks[t].chosen]_vars

---------------------------------------------------------------------------
(* CardSpec: the commands on the cards of a player whose inventory is read from *)
(* data.json: select, enhance and battle *)

\* cards in the inventory CardSpec starts with
MaxInv == 3

\* commands issued in CardSpec
MaxCardCmds == 2

\* The cards an inventory of CardSpec is made of: template, rarity, level and
\* experience. Each is a card that drops, sacrifices and wins bring about: a new
\* card of each rarity, a Common one sacrifice short of its last level, and a
\* Common at its max_level.
Stock ==
    { [tpl |-> 1, rarity |-> "Common", level |-> 1, exp |-> 0],
      [tpl |-> 1, rarity |-> "Common", level |-> 29, exp |-> 2850],
      [tpl |-> 1, rarity |-> "Common", level |-> 30, exp |-> 2990],
      [tpl |-> 2, rarity |-> "Rare", level |-> 1, exp |-> 0],
      [tpl |-> 1, rarity |-> "Epic", level |-> 1, exp |-> 0],
      [tpl |-> 3, rarity |-> "Legendary", level |-> 1, exp |-> 90] }

\* The card of blueprint s dropped at millisecond ms.
StockCard(s, ms) ==
    [create_card_instance(CHARACTERS[s.tpl], s.rarity, ms, RandLow)
        EXCEPT !.level = s.level, !.exp = s.exp]

CardInit ==
    /\ \E k \in 1..MaxInv :
          \E f \in [1..k -> Stock] :
              /\ cards = [i \in 1..k |-> StockCard(f[i], i)]
              /\ data = [u \in {1} |-> [NewUser EXCEPT !.inventory = [i \in 1..k |-> i]]]
              /\ clock = k + 1
    /\ order = <<1>>
    /\ tasks = << >>
    /\ file = Dump(data, cards)
    /\ lock = [locked |-> FALSE, waiters |-> << >>]
    /\ wlog = NoLog
    /\ issued = 0

CardNext ==
    \/ issued < MaxCardCmds
          /\ \E index \in 0..(Len(data[1].inventory) + 1) : Select(1, index)
    \/ issued < MaxCardCmds /\ Enhance(1)
    \/ issued < MaxCardCmds /\ BattleStart(1)
    \/ \E t \in DOMAIN tasks : BattleLoad(t)
    \/ \E t \in DOMAIN tasks : BattleResolve(t)

CardSpec == CardInit /\ [][CardNext]_vars

---------------------------------------------------------------------------
(* Claims on CardSpec *)

\* The arguments enhance is tried with in a state: target, filters and count.
EnhanceArgs ==
    LET inv == data[1].inventory
    IN [target : EnhanceTargets(inv, cards),
        flag_r : {""} \cup HeldRarities(inv, cards),
        flag_n : {""} \cup HeldNames(inv, cards),
        flag_l : (-1)..MaxCards]

EnhanceOf(a) == EnhanceResult(data, cards, 1, a.target, a.flag_r, a.flag_n, a.flag_l)

\* The cards of inventory inv that inventory inv2 no longer holds, in the order of inv.
Removed(inv, inv2) ==
    LET Gone(x) == x \notin Range(inv2)
    IN SelectSeq(inv, Gone)

\* The step is a successful enhance with the arguments a that consumed a card.
EnhanceStep(a) ==
    /\ EnhanceOf(a).ok
    /\ data' # data
    /\ data' = EnhanceOf(a).d /\ cards' = EnhanceOf(a).c
    /\ issued' = issued + 1 /\ tasks' = tasks /\ clock' = clock

\* C12: a successful enhance with count N removes exactly N cards from the
\* inventory and never the target, also when the target meets the filter.
C12_RemovesExactlyN ==
    [][\A a \in EnhanceArgs :
          EnhanceStep(a) =>
             /\ Len(data'[1].inventory) = Len(data[1].inventory) - a.flag_l
             /\ Len(Removed(data[1].inventory, data'[1].inventory)) = a.flag_l
             /\ EnhanceTarget(data[1].inventory, cards, a.target)
                   \in Range(data'[1].inventory)]_vars

\* The cards the claim lets a sacrifice take: every card but the target that meets
\* the rarity and the name filter, in inventory order.
Matching(inv, target_card, flag_r, flag_n) ==
    LET Meets(x) == /\ x # target_card
                    /\ flag_r = "" \/ cards[x].rarity = flag_r
                    /\ flag_n = "" \/ cards[x].name = flag_n
    IN SelectSeq(inv, Meets)

FirstN(seq, n) == [i \in 1..n |-> seq[i]]

\* The experience the claim gives for a sacrificed card.
ClaimExp(rarity) ==
    CASE rarity = "Common" -> 50
      [] rarity = "Rare" -> 75
      [] rarity = "Epic" -> 100
      [] rarity = "Legendary" -> 150

RECURSIVE ClaimSum(_)
ClaimSum(seq) ==
    IF seq = << >> THEN 0 ELSE ClaimExp(cards[Head(seq)].rarity) + ClaimSum(Tail(seq))

\* All the experience a card has been given: that of the levels it has passed
\* (100 x level each) and what it holds.
RECURSIVE TotalExp(_, _)
TotalExp(level, exp) ==
    IF level <= 1 THEN exp ELSE TotalExp(level - 1, exp + 100 * (level - 1))

\* C13: a successful enhance with count N consumes the first N cards, in inventory
\* order, that are not the target and meet the filter, and gives the target the
\* sum of 50, 75, 100 or 150 for each consumed Common, Rare, Epic or Legendary.
C13_FirstNAndSum ==
    [][\A a \in EnhanceArgs :
          LET inv == data[1].inventory
              target_card == EnhanceTarget(inv, cards, a.target)
              first == FirstN(Matching(inv, target_card, a.flag_r, a.flag_n), a.flag_l)
          IN EnhanceStep(a) =>
               /\ Removed(inv, data'[1].inventory) = first
               /\ TotalExp(cards'[target_card].level, cards'[target_card].exp)
                    = TotalExp(cards[target_card].level, cards[target_card].exp)
                      + ClaimSum(first)]_vars

\* C14: a card that an enhance or a Victory has touched has a level of at most
\* its max_level and, below max_level, less experience than 100 x level; nothing
\* of its experience is lost (at max_level the surplus stays on the card: a Victory
\* on floor F adds 40 + 10 F in all), and running either cascade again changes
\* neither its level nor its experience.
C14_CascadeStopsAtMax ==
    [][\A ref \in DOMAIN cards :
          cards'[ref] # cards[ref] =>
             /\ cards'[ref].level <= cards'[ref].max_level
             /\ cards'[ref].level < cards'[ref].max_level
                   => cards'[ref].exp < 100 * cards'[ref].level
             /\ cards'[ref].level >= cards[ref].level
             /\ TotalExp(cards'[ref].level, cards'[ref].exp)
                   > TotalExp(cards[ref].level, cards[ref].exp)
             /\ \A t \in DOMAIN tasks :
                   (WinsNow(t) /\ tasks[t].chosen = ref) =>
                       TotalExp(cards'[ref].level, cards'[ref].exp)
                         = TotalExp(cards[ref].level, cards[ref].exp)
                           + 40 + 10 * tasks'[t].b.floor
             /\ EnhanceLevelUp(cards'[ref]) = cards'[ref]
             /\ BattleCardLevelUp(cards'[ref]) = cards'[ref]]_vars

\* C14 witness: a card at its max_level has won a battle and holds more experience
\* than a level costs.
C14_Witness ==
    \E t \in DOMAIN tasks :
          /\ tasks[t].pc = "done" /\ IsVictory(tasks[t].b)
          /\ cards[tasks[t].chosen].level = cards[tasks[t].chosen].max_level
          /\ cards[tasks[t].chosen].exp >= 100 * cards[tasks[t].chosen].level

---------------------------------------------------------------------------
(* LevelSpec: maybe_level_up_user on a player who is granted experience *)

\* user levels LevelSpec starts with
MaxUserLevel == 3

\* grants of experience in LevelSpec
MaxGrants == 2

\* A grant that has returned: n the experience granted, b.lvl the user's level and
\* off the user's experience before it.
GrantTask(uid, gain, level, exp) ==
    [cmd |-> "grant", uid |-> uid, pc |-> "returned", chosen |-> 0,
     b |-> [NoLocals EXCEPT !.lvl = level], n |-> gain, off |-> exp]

\* The amounts tried for a user: nothing, the reward of floor 1 (line 745), what
\* is missing to the threshold, the threshold, and enough for two and three levels.
Gains(user) ==
    { 0, 35,
      exp_to_next(user.level) - user.exp,
      exp_to_next(user.level),
      exp_to_next(user.level) + exp_to_next(user.level + 1),
      exp_to_next(user.level) + exp_to_next(user.level + 1)
         + exp_to_next(user.level + 2) + 99 }

\* Lines 747-752: the experience is added and maybe_level_up_user is called.
Grant(uid) ==
    /\ \E gain \in Gains(data[uid]) :
          /\ data' = [data EXCEPT ![uid] =
                         maybe_level_up_user([data[uid] EXCEPT !.exp = data[uid].exp + gain])]
          /\ tasks' = Append(tasks, GrantTask(uid, gain, data[uid].level, data[uid].exp))
    /\ issued' = issued + 1
    /\ UNCHANGED <<order, cards, clock, file, lock, wlog>>

LevelInit ==
    /\ \E level \in 1..MaxUserLevel, stamina \in {0, 20} :
          \E exp \in {0, 95, exp_to_next(level) - 1} :
              data = [u \in {1} |-> [NewUser EXCEPT !.level = level, !.exp = exp,
                                                     !.stamina = stamina]]
    /\ order = <<1>>
    /\ cards = << >>
    /\ tasks = << >>
    /\ clock = 1
    /\ file = Dump(data, cards)
    /\ lock = [locked |-> FALSE, waiters |-> << >>]
    /\ wlog = NoLog
    /\ issued = 0

LevelNext == issued < MaxGrants /\ Grant(1)

LevelSpec == LevelInit /\ [][LevelNext]_vars

---------------------------------------------------------------------------
(* Claims on LevelSpec *)

\* All the experience a user has been given: 100 x level for each level passed
\* and what the user holds.
RECURSIVE TotalUserExp(_, _)
TotalUserExp(level, exp) ==
    IF level <= 1 THEN exp ELSE TotalUserExp(level - 1, exp + 100 * (level - 1))

\* C15: maybe_level_up_user levels up while experience >= 100 x level, each
\* level-up taking 100 x level experience and giving one level and 5 stamina; it
\* returns with experience < 100 x level; and exactly 100 x L experience granted
\* to a user of level L with no experience gives level L + 1 with no experience.
C15_UserLevelUp ==
    [][issued' = issued + 1 =>
          LET u == data[1]
              v == data'[1]
              g == tasks'[Len(tasks')].n
          IN /\ v.exp >= 0 /\ v.exp < 100 * v.level
             /\ v.level >= u.level
             /\ TotalUserExp(v.level, v.exp) = TotalUserExp(u.level, u.exp + g)
             /\ v.stamina = u.stamina + 5 * (v.level - u.level)
             /\ u.exp + g < 100 * u.level => v.level = u.level
             /\ (u.exp = 0 /\ g = 100 * u.level) => (v.level = u.level + 1 /\ v.exp = 0)]_vars

\* C15 witness: one grant was exactly the threshold of a user with no experience,
\* and another grant took the user up more than one level.
C15_Witness ==
    /\ Len(tasks) = 2
    /\ \E i \in {1, 2} :
          tasks[i].off = 0 /\ tasks[i].n = 100 * tasks[i].b.lvl
    /\ data[1].level >= tasks[1].b.lvl + 3
    /\ data[1].stamina >= 15

---------------------------------------------------------------------------
(* FloorSpec: floor next and floor <n> on a player read from data.json *)

\* highest unlocked floor FloorSpec starts with
MaxStartUnlocked == 12

\* commands issued in FloorSpec
MaxFloorCmds == 2

\* The player stands on any floor up to the unlocked one.
FloorInit ==
    /\ \E unlocked \in 1..MaxStartUnlocked :
          \E floor \in 1..unlocked :
              data = [u \in {1} |-> [NewUser EXCEPT !.floor = floor,
                                                     !.floor_unlocked = unlocked]]
    /\ order = <<1>>
    /\ cards = << >>
    /\ tasks = << >>
    /\ clock = 1
    /\ file = Dump(data, cards)
    /\ lock = [locked |-> FALSE, waiters |-> << >>]
    /\ wlog = NoLog
    /\ issued = 0

FloorSpecNext ==
    \/ issued < MaxFloorCmds /\ FloorNext(1)
    \/ issued < MaxFloorCmds /\ \E n \in 0..(MaxStartUnlocked + 1) : FloorSet(1, n)

FloorSpec == FloorInit /\ [][FloorSpecNext]_vars

---------------------------------------------------------------------------
(* Claims on FloorSpec *)

\* C18: floor next raises the current floor by exactly 1 if and only if it is
\* below 10 and below the unlocked floor, leaves it otherwise, and never changes
\* the unlocked floor.
C18_FloorNext ==
    [][FloorNext(1) =>
          /\ data'[1].floor =
                IF data[1].floor < 10 /\ data[1].floor < data[1].floor_unlocked
                THEN data[1].floor + 1
                ELSE data[1].floor
          /\ data'[1].floor_unlocked = data[1].floor_unlocked]_vars

\* C18 witness: after two commands the player stands on floor 4 with floor 4
\* unlocked: floor next from 3 was taken, and floor next on 4 is refused.
C18_Witness ==
    /\ issued = 2
    /\ data[1].floor = 4 /\ data[1].floor_unlocked = 4
    /\ ~FloorNextResult(data[1]).ok

\* C19: floor <n> sets the current floor to n if and only if 1 <= n <= unlocked
\* floor; for any other n it fails and leaves the current floor, the unlocked floor
\* and the file as they were; it never changes the unlocked floor.
C19_FloorSet ==
    [][\A n \in 0..(MaxStartUnlocked + 1) :
          FloorSet(1, n) =>
             /\ data'[1].floor =
                   IF 1 <= n /\ n <= data[1].floor_unlocked THEN n ELSE data[1].floor
             /\ data'[1].floor_unlocked = data[1].floor_unlocked
             /\ ~(1 <= n /\ n <= data[1].floor_unlocked) => file' = file]_vars

\* C19 witness: after two commands the player stands on the unlocked floor 7; a
\* floor above it and floor 0 are refused.
C19_Witness ==
    /\ issued = 2
    /\ data[1].floor = data[1].floor_unlocked /\ data[1].floor_unlocked = 7
    /\ ~FloorSetResult(data[1], 8).ok /\ ~FloorSetResult(data[1], 0).ok
    /\ FloorSetResult(data[1], 7).ok

---------------------------------------------------------------------------
(* RewardSpec: one battle of a player with gold and experience, resolved in one step *)

\* most experience a user or a card starts RewardSpec with
MaxStartExp == 70

\* most gold a user starts RewardSpec with
MaxStartGold == 900

\* A stored player with or without gold and experience whose selected card has or
\* has not experience: with MaxStartExp a win's experience passes the threshold of
\* level 1.
RewardInit ==
    /\ \E f \in Fighters, fl \in 1..MaxStartFloor,
          gold \in {0, MaxStartGold}, exp \in {0, MaxStartExp},
          cexp \in {0, MaxStartExp} :
          /\ cards = << [f EXCEPT !.exp = cexp] >>
          /\ data = [u \in {1} |->
                       [NewUser EXCEPT !.gold = gold, !.exp = exp,
                                       !.floor = fl, !.floor_unlocked = fl,
                                       !.inventory = <<1>>, !.selected = f.instance_id]]
    /\ order = <<1>>
    /\ tasks = << >>
    /\ clock = 1
    /\ file = Dump(data, cards)
    /\ lock = [locked |-> FALSE, waiters |-> << >>]
    /\ wlog = NoLog
    /\ issued = 0

RewardNext ==
    \/ tasks = << >> /\ BattleStart(1)
    \/ \E t \in DOMAIN tasks : BattleLoad(t)
    \/ \E t \in DOMAIN tasks : BattleResolve(t)

RewardSpec == RewardInit /\ [][RewardNext]_vars

---------------------------------------------------------------------------
(* Claims on RewardSpec *)

\* C22: a Victory on floor F gives the player 50 + 10F gold and 30 + 5F experience
\* and the chosen card 40 + 10F experience, counted before the level-ups; a Defeat
\* or a Draw leaves gold, user experience and level, and the card as they were.
C22_RewardsByFloor ==
    [][\A t \in DOMAIN tasks :
          Resolves(t) =>
            LET u == tasks[t].uid
                F == tasks'[t].b.floor
                k == tasks[t].chosen
            IN IF IsVictory(tasks'[t].b)
               THEN /\ data'[u].gold = data[u].gold + 50 + 10 * F
                    /\ TotalUserExp(data'[u].level, data'[u].exp) =
                          TotalUserExp(data[u].level, data[u].exp) + 30 + 5 * F
                    /\ TotalExp(cards'[k].level, cards'[k].exp) =
                          TotalExp(cards[k].level, cards[k].exp) + 40 + 10 * F
               ELSE /\ data'[u].gold = data[u].gold
                    /\ data'[u].exp = data[u].exp /\ data'[u].level = data[u].level
                    /\ cards'[k].exp = cards[k].exp /\ cards'[k].level = cards[k].level]_vars

\* C22 witness: a Victory on floor 2 has paid 70 gold and taken the player and
\* the card, both of level 1 with MaxStartExp experience, to level 2.
C22_Witness ==
    \E t \in DOMAIN tasks :
        /\ tasks[t].pc = "done" /\ IsVictory(tasks[t].b) /\ tasks[t].b.floor = 2
        /\ tasks[t].b.lvl = 1
        /\ data[1].gold = MaxStartGold + 70
        /\ data[1].level = 2 /\ data[1].exp = MaxStartExp + 40 - 100
        /\ cards[tasks[t].chosen].level = 2
        /\ cards[tasks[t].chosen].exp = MaxStartExp + 60 - 100

---------------------------------------------------------------------------
(* LoadSpec: on_ready loads data.json, then players are referenced *)

\* players referenced in LoadSpec
MaxPlayers == 2

\* commands issued in LoadSpec
MaxRefs == 4

\* The contents of data.json that on_ready meets, by what json.load makes of them:
\* no file; text that is not JSON (an empty or cut-short file included); the JSON
\* null; a JSON object without the key "users"; a JSON array; and a store
\* {"users": ...} without players, with a new player or with a seasoned one.
StartFiles ==
    { [ok |-> FALSE, users |-> << >>, json |-> j] : j \in {"missing", "garbled"} }
    \cup { [ok |-> TRUE, users |-> << >>, json |-> j] : j \in {"null", "object", "array"} }
    \cup { [ok |-> TRUE, users |-> st, json |-> "store"] :
              st \in { EmptyStore,
                       [u \in {1} |-> NewUser],
                       [u \in {1} |-> [NewUser EXCEPT !.stamina = 7, !.gold = 900,
                                                       !.level = 3, !.floor = 2,
                                                       !.floor_unlocked = 4]] } }

\* Lines 64-71: the value _load_data_from_disk returns. json.load raises on text
\* that is not JSON and the except clause answers with an empty store; every
\* value json.load returns is returned as it is.
load_data_from_disk(f) ==
    IF f.json = "missing" THEN [json |-> "store", users |-> EmptyStore]
    ELSE IF f.json = "garbled" THEN [json |-> "store", users |-> EmptyStore]
    ELSE [json |-> f.json, users |-> f.users]

\* Lines 73-76: data = loaded if loaded is not None else {"users": {}}.
load_data(f) ==
    LET loaded == load_data_from_disk(f)
    IN IF loaded.json = "null" THEN [json |-> "store", users |-> EmptyStore] ELSE loaded

\* The handler of on_ready after load_data: pc tells what `data` is bound to, a
\* store ("store") or another JSON value ("object", "array").
LoadTask(pc) ==
    [cmd |-> "load_data", uid |-> 0, pc |-> pc, chosen |-> 0, b |-> NoLocals,
     n |-> 0, off |-> 0]

\* A handler of floor_cmd without action: "returned" after its message, "raised"
\* when ensure_user raised.
ShowTask(uid, pc) ==
    [cmd |-> "floor", uid |-> uid, pc |-> pc, chosen |-> 0, b |-> NoLocals,
     n |-> 0, off |-> 0]

\* on_ready, lines 202-203.
LoadData ==
    /\ tasks = << >>
    /\ LET loaded == load_data(file)
       IN /\ data' = loaded.users
          /\ tasks' = << LoadTask(loaded.json) >>
    /\ order' = << >>
    /\ UNCHANGED <<cards, clock, file, lock, wlog, issued>>

\* floor_cmd without action, lines 792-802: ensure_user and a message. With `data`
\* bound to an object without "users" line 100 raises KeyError, with an array
\* TypeError, and the handler ends there.
FloorShow(uid) ==
    /\ tasks # << >>
    /\ IF tasks[1].pc = "store"
       THEN /\ data' = ensure_user(data, uid)
            /\ order' = KeysAfter(order, uid)
            /\ tasks' = Append(tasks, ShowTask(uid, "returned"))
       ELSE /\ tasks' = Append(tasks, ShowTask(uid, "raised"))
            /\ UNCHANGED <<data, order>>
    /\ issued' = issued + 1
    /\ UNCHANGED <<cards, clock, file, lock, wlog>>

\* The module as imported (line 62: data = {"users": {}}) beside any data.json.
LoadInit ==
    /\ file \in StartFiles
    /\ data = EmptyStore
    /\ order = << >>
    /\ cards = << >>
    /\ tasks = << >>
    /\ clock = 1
    /\ lock = [locked |-> FALSE, waiters |-> << >>]
    /\ wlog = NoLog
    /\ issued = 0

LoadNext ==
    \/ LoadData
    \/ issued < MaxRefs /\ \E uid \in 1..MaxPlayers : FloorShow(uid)

LoadSpec == LoadInit /\ [][LoadNext]_vars

---------------------------------------------------------------------------
(* Claims on LoadSpec *)

\* C23: loading a missing file or a content that is not a store binds an empty
\* store; afterwards every reference to a player returns, creating the default
\* record (stamina 20, gold 0, level 1, floor 1, unlocked floor 1, no selection,
\* no cards) on the first reference and leaving the record as it is on later ones.
C23_LoadTolerant ==
    /\ [](\A t \in DOMAIN tasks : tasks[t].pc # "raised")
    /\ [][/\ LoadData =>
               /\ tasks'[1].pc = "store"
               /\ data' = IF file.json = "store" THEN file.users ELSE EmptyStore
          /\ \A uid \in 1..MaxPlayers :
               FloorShow(uid) =>
                  /\ uid \in DOMAIN data'
                  /\ data'[uid] =
                        IF uid \in DOMAIN data THEN data[uid]
                        ELSE [stamina |-> 20, gold |-> 0, inventory |-> << >>,
                              last_hourly |-> 0, level |-> 1, exp |-> 0, floor |-> 1,
                              floor_unlocked |-> 1, selected |-> NoneId]
                  /\ \A u \in DOMAIN data : data'[u] = data[u]]_vars

---------------------------------------------------------------------------
(* SaveSpec: farm commands of distinct players and the writes of save_data *)

\* A handler of farm_cmd in save_data.
\*   pc: "waiting"  queued in data_lock.acquire()
\*       "locked"   holds data_lock, its write handed to the worker thread
\*       "writing"  the worker thread has opened data.json and is in json.dump;
\*                  n is the size of data["users"] when the dump began to iterate
\*                  over it, off the number of players written
\*       "done"     the write is complete and the lock released
\*       "failed"   json.dump raised (the dict changed size during iteration)
FarmTask(uid, pc) ==
    [cmd |-> "farm", uid |-> uid, pc |-> pc, chosen |-> 0, b |-> NoLocals,
     n |-> 0, off |-> 0]

\* random.randint(100, 1000): the amount tried
FarmLow == 100

\* Line 313.
FarmGold(user, amount) == [user EXCEPT !.gold = user.gold + amount]

\* A save_data without mutual exclusion: every caller proceeds at once.
AcquireAlways(l) == TRUE

\* `async with data_lock` (line 83), asyncio.Lock.acquire: the lock is taken at
\* once when it is free and nobody is queued; otherwise the caller queues.
CanAcquire(l) == ~l.locked /\ l.waiters = << >>

\* An iteration that stops one player short.
IterDoneEarly(off, n) == off >= n - 1

\* The end of the iteration over data["users"] in json.dump (line 80).
IterDone(off, n) == off = n

\* The file after one more player's record has been written.
FilePut(f, uid, rec) ==
    [f EXCEPT !.users = [u \in DOMAIN f.users \cup {uid} |->
                            IF u = uid THEN rec ELSE f.users[u]]]

\* farm_cmd, lines 311-314: the gold is added in memory, then save_data is entered.
Farm(uid) ==
    /\ \A t \in DOMAIN tasks : tasks[t].uid # uid
    /\ \E amount \in {FarmLow} :
          data' = [ensure_user(data, uid) EXCEPT
                      ![uid] = FarmGold(ensure_user(data, uid)[uid], amount)]
    /\ order' = KeysAfter(order, uid)
    /\ LET t == Len(tasks) + 1
       IN IF CanAcquire(lock)
          THEN /\ tasks' = Append(tasks, FarmTask(uid, "locked"))
               /\ lock' = [lock EXCEPT !.locked = TRUE]
               /\ wlog' = [ev |-> wlog.ev \o << <<"call", t>>, <<"acq", t>> >>,
                           snaps |-> {Dump(data', cards)}]
          ELSE /\ tasks' = Append(tasks, FarmTask(uid, "waiting"))
               /\ lock' = [lock EXCEPT !.waiters = Append(lock.waiters, t)]
               /\ wlog' = [ev |-> Append(wlog.ev, <<"call", t>>),
                           snaps |-> wlog.snaps \cup {Dump(data', cards)}]
    /\ issued' = issued + 1
    /\ UNCHANGED <<cards, clock, file>>

\* save_data, line 83: the first waiter, woken by the release, takes the lock.
LockResume(t) ==
    /\ tasks[t].cmd = "farm" /\ tasks[t].pc = "waiting"
    /\ ~lock.locked /\ lock.waiters # << >> /\ Head(lock.waiters) = t
    /\ lock' = [locked |-> TRUE, waiters |-> Tail(lock.waiters)]
    /\ tasks' = [tasks EXCEPT ![t].pc = "locked"]
    /\ wlog' = [ev |-> Append(wlog.ev, <<"acq", t>>), snaps |-> {Dump(data, cards)}]
    /\ UNCHANGED <<data, order, cards, clock, file, issued>>

\* _save_data_to_disk, line 79: open(DATA_FILE, "w") empties the file, and
\* json.dump starts to iterate over the live dict.
WriteOpen(t) ==
    /\ tasks[t].cmd = "farm" /\ tasks[t].pc = "locked"
    /\ file' = [ok |-> FALSE, users |-> << >>]
    /\ tasks' = [tasks EXCEPT ![t].pc = "writing", ![t].n = Len(order), ![t].off = 0]
    /\ wlog' = [wlog EXCEPT !.ev = Append(wlog.ev, <<"open", t>>)]
    /\ UNCHANGED <<data, order, cards, clock, lock, issued>>

\* _save_data_to_disk, line 80: json.dump writes the next player's record as it
\* is in memory now; the event loop runs other handlers meanwhile.
WriteChunk(t) ==
    /\ tasks[t].cmd = "farm" /\ tasks[t].pc = "writing"
    /\ Len(order) = tasks[t].n /\ ~IterDone(tasks[t].off, tasks[t].n)
    /\ LET uid == order[tasks[t].off + 1]
       IN file' = FilePut(file, uid, DumpUser(data[uid], cards))
    /\ tasks' = [tasks EXCEPT ![t].off = tasks[t].off + 1]
    /\ UNCHANGED <<data, order, cards, clock, lock, wlog, issued>>

\* _save_data_to_disk, line 80: a player was added while json.dump iterated:
\* RuntimeError leaves the file cut short; `async with` releases the lock.
WriteAbort(t) ==
    /\ tasks[t].cmd = "farm" /\ tasks[t].pc = "writing"
    /\ Len(order) # tasks[t].n
    /\ tasks' = [tasks EXCEPT ![t].pc = "failed"]
    /\ lock' = [lock EXCEPT !.locked = FALSE]
    /\ wlog' = [wlog EXCEPT !.ev = Append(wlog.ev, <<"abort", t>>)]
    /\ UNCHANGED <<data, order, cards, clock, file, issued>>

\* _save_data_to_disk returns, the file is closed and save_data releases the lock.
WriteClose(t) ==
    /\ tasks[t].cmd = "farm" /\ tasks[t].pc = "writing"
    /\ Len(order) = tasks[t].n /\ IterDone(tasks[t].off, tasks[t].n)
    /\ file' = [file EXCEPT !.ok = TRUE]
    /\ tasks' = [tasks EXCEPT ![t].pc = "done"]
    /\ lock' = [lock EXCEPT !.locked = FALSE]
    /\ wlog' = [wlog EXCEPT !.ev = Append(wlog.ev, <<"close", t>>)]
    /\ UNCHANGED <<data, order, cards, clock, issued>>

\* The store read from data.json holds the first k players, in that order.
SaveInit ==
    /\ \E k \in 0..MaxWriters :
          /\ data = [u \in 1..k |-> NewUser]
          /\ order = [i \in 1..k |-> i]
    /\ cards = << >>
    /\ tasks = << >>
    /\ clock = 1
    /\ file = IF data = << >> THEN [ok |-> FALSE, users |-> << >>] ELSE Dump(data, cards)
    /\ lock = [locked |-> FALSE, waiters |-> << >>]
    /\ wlog = NoLog
    /\ issued = 0

SaveNext ==
    \/ \E uid \in 1..MaxWriters : Farm(uid)
    \/ \E t \in DOMAIN tasks : LockResume(t)
    \/ \E t \in DOMAIN tasks : WriteOpen(t)
    \/ \E t \in DOMAIN tasks : WriteChunk(t)
    \/ \E t \in DOMAIN tasks : WriteAbort(t)
    \/ \E t \in DOMAIN tasks : WriteClose(t)

SaveSpec == SaveInit /\ [][SaveNext]_vars

---------------------------------------------------------------------------
(* Claims on SaveSpec *)

\* The handlers named by the events of one kind, in the order of the events.
RECURSIVE EventsOf(_, _)
EventsOf(ev, kind) ==
    IF ev = << >> THEN << >>
    ELSE IF Head(ev)[1] = kind THEN <<Head(ev)[2]>> \o EventsOf(Tail(ev), kind)
    ELSE EventsOf(Tail(ev), kind)

IsPrefix(s1, s2) == Len(s1) <= Len(s2) /\ SubSeq(s2, 1, Len(s1)) = s1

\* C4: at most one write of the store is in progress at any time, the writes
\* begin in the order in which their callers acquired the lock, and no caller
\* leaves save_data without its write.
C4_OneWriteAtATime ==
    /\ Cardinality({ t \in DOMAIN tasks : tasks[t].pc \in {"locked", "writing"} }) <= 1
    /\ IsPrefix(EventsOf(wlog.ev, "open"), EventsOf(wlog.ev, "acq"))
    /\ \A t \in DOMAIN tasks :
          /\ tasks[t].pc \in {"done", "failed"} =>
                \E i \in 1..Len(wlog.ev) : wlog.ev[i] = <<"open", t>>
          /\ Cardinality({ i \in 1..Len(wlog.ev) : wlog.ev[i] = <<"open", t>> }) <= 1

\* C4 witness: one caller has written, a second is writing and a third is queued.
C4_Witness ==
    \E t1, t2, t3 \in DOMAIN tasks :
        /\ tasks[t1].pc = "done" /\ tasks[t2].pc = "writing" /\ tasks[t3].pc = "waiting"
        /\ tasks[t2].off >= 1

\* C5: a completed write holds the store as it was at one instant not before the
\* writer acquired the lock.
C5_WriteIsOneSnapshot ==
    [][\A t \in DOMAIN tasks :
          (tasks[t].pc = "writing" /\ tasks'[t].pc = "done") => file' \in wlog.snaps]_vars

\* C6: once every handler that mutated its player and called save_data has come
\* back, the file equals the store in memory.
C6_NoLostUpdate ==
    (tasks # << >> /\ \A t \in DOMAIN tasks : tasks[t].pc \in {"done", "failed"})
        => file = Dump(data, cards)

\* C6 witness: three handlers had all mutated and called save_data before the first
\* write was complete, all three are back, and the file holds all three mutations.
C6_Witness ==
    /\ Len(tasks) = 3
    /\ \A t \in DOMAIN tasks : tasks[t].pc \in {"done", "failed"}
    /\ \E c \in 1..Len(wlog.ev) :
          /\ wlog.ev[c][1] \in {"close", "abort"}
          /\ \A i \in 1..(c - 1) : wlog.ev[i][1] \notin {"close", "abort"}
          /\ \A t \in DOMAIN tasks : \E i \in 1..(c - 1) : wlog.ev[i] = <<"call", t>>
    /\ file.ok /\ \A t \in DOMAIN tasks : file.users[tasks[t].uid].gold = FarmLow

=============================================================================
